---- MODULE Spec2Model ----
(***************************************************************************)
(* Model of the dotplot binning pipeline of ap_stat.py:                    *)
(*   get_stack_keys  (Key Generator),                                      *)
(*   get_stack_dict  (Binner),                                             *)
(*   get_points      (Point Projector).                                    *)
(*                                                                         *)
(* Numbers.  The pipeline computes with Python floats (IEEE-754 binary64,  *)
(* round to nearest, ties to even).  A non-negative float x is held here   *)
(* exactly, as the natural number x * Base^FracLimbs, little-endian in     *)
(* NLimbs limbs of base Base (TLC's own integers are too narrow for a 53   *)
(* bit significand).  Every float in [2^-19, 2^24) and zero has exactly    *)
(* one such form, so equality of forms is equality of floats, which is     *)
(* what Python's dict uses for its keys.  Whole numbers are held the same  *)
(* way; on the small whole numbers used here Python's int arithmetic and   *)
(* its float arithmetic give the same values.                              *)
(***************************************************************************)
EXTENDS Integers, Sequences, FiniteSets

\* ------------------------------------------------------------------ bounds
MaxLen == 3        \* longest Dataset
MaxKeys == 3       \* longest caller-supplied key sequence
MaxStacks == 4     \* largest num_stacks passed without explicit keys
MaxNeg == 1        \* num_stacks goes down to -MaxNeg without explicit keys

\* default of the num_stacks parameter
DefaultStacks == 5

\* ------------------------------------------------- binary64 representation
Base == 2^12
NLimbs == 8
FracLimbs == 6
LimbBits == 12
Prec == 53                     \* significand width of a Python float

Pow2(n) == 2^n

ZeroBig == <<0, 0, 0, 0, 0, 0, 0, 0>>

Zeros(n) == SubSeq(ZeroBig, 1, n)

\* the whole number k (0 <= k < Base)
BigFromInt(k) == Zeros(FracLimbs) \o <<k>> \o Zeros(NLimbs - FracLimbs - 1)

\* one unit in the last place of the representation
OneUnit == <<1>> \o Zeros(NLimbs - 1)

RECURSIVE AddFrom(_, _, _, _)
AddFrom(a, b, i, c) ==
    IF i > NLimbs THEN <<>>
    ELSE <<(a[i] + b[i] + c) % Base>>
         \o AddFrom(a, b, i + 1, (a[i] + b[i] + c) \div Base)

\* exact a + b
BigAdd(a, b) == AddFrom(a, b, 1, 0)

RECURSIVE SubFrom(_, _, _, _)
SubFrom(a, b, i, c) ==
    IF i > NLimbs THEN <<>>
    ELSE IF a[i] - b[i] - c < 0
         THEN <<a[i] - b[i] - c + Base>> \o SubFrom(a, b, i + 1, 1)
         ELSE <<a[i] - b[i] - c>> \o SubFrom(a, b, i + 1, 0)

\* exact a - b, for a >= b
BigSub(a, b) == SubFrom(a, b, 1, 0)

RECURSIVE MulFrom(_, _, _, _)
MulFrom(a, m, i, c) ==
    IF i > NLimbs THEN <<>>
    ELSE <<(a[i] * m + c) % Base>>
         \o MulFrom(a, m, i + 1, (a[i] * m + c) \div Base)

\* exact a * m, for a small natural m
BigMulSmall(a, m) == MulFrom(a, m, 1, 0)

\* long division from limb i down, r the remainder so far, acc the quotient
RECURSIVE DivFrom(_, _, _, _, _)
DivFrom(a, d, i, r, acc) ==
    IF i = 0 THEN [q |-> acc, r |-> r]
    ELSE DivFrom(a, d, i - 1, (r * Base + a[i]) % d,
                 <<(r * Base + a[i]) \div d>> \o acc)

\* floor(a / d) and a mod d, for a small positive d
BigDivSmall(a, d) == DivFrom(a, d, NLimbs, 0, <<>>)

RECURSIVE LtFrom(_, _, _)
LtFrom(a, b, i) ==
    IF i = 0 THEN FALSE
    ELSE IF a[i] # b[i] THEN a[i] < b[i]
    ELSE LtFrom(a, b, i - 1)

\* the float comparisons < and <=
FLt(a, b) == LtFrom(a, b, NLimbs)
FLe(a, b) == ~ FLt(b, a)

RECURSIVE TopLimb(_, _)
TopLimb(a, i) == IF i = 0 THEN 0 ELSE IF a[i] # 0 THEN i ELSE TopLimb(a, i - 1)

RECURSIVE IntBitLen(_)
IntBitLen(n) == IF n = 0 THEN 0 ELSE 1 + IntBitLen(n \div 2)

\* number of significant bits of a
BitLenAt(a, t) == IF t = 0 THEN 0 ELSE LimbBits * (t - 1) + IntBitLen(a[t])

BitLen(a) == BitLenAt(a, TopLimb(a, NLimbs))

ShrResult(a, w, d) ==
    [q |-> d.q, lost |-> d.r # 0 \/ \E i \in 1..NLimbs : i <= w /\ a[i] # 0]

\* floor(a / 2^r), with whether any 1 bit was shifted out
Shr(a, r) ==
    ShrResult(a, r \div LimbBits,
              BigDivSmall(SubSeq(a, (r \div LimbBits) + 1, NLimbs)
                              \o Zeros(r \div LimbBits),
                          Pow2(r % LimbBits)))

\* a * 2^r
Shl(a, r) ==
    BigMulSmall(Zeros(r \div LimbBits) \o SubSeq(a, 1, NLimbs - (r \div LimbBits)),
                Pow2(r % LimbBits))

\* round to nearest, ties to even: kept is the leading Prec bits, guard the
\* bit below them, inexact whether anything lies below the guard bit
RoundKept(kept, guard, inexact, r) ==
    Shl(IF guard /\ (inexact \/ kept[1] % 2 = 1) THEN BigAdd(kept, OneUnit)
                                                 ELSE kept, r)

RoundShifted(x, sticky, r) ==
    RoundKept(Shr(x.q, 1).q, x.q[1] % 2 = 1, x.lost \/ sticky, r)

RoundAt(a, sticky, len) ==
    IF len <= Prec THEN a
    ELSE RoundShifted(Shr(a, len - Prec - 1), sticky, len - Prec)

\* the float nearest to the exact value a (plus a positive remainder below
\* the unit when sticky)
Round(a, sticky) == RoundAt(a, sticky, BitLen(a))

\* ------------------------------------------------------- float arithmetic
\* a + b
FAdd(a, b) == Round(BigAdd(a, b), FALSE)

\* a - b, for a >= b
FSub(a, b) == Round(BigSub(a, b), FALSE)

\* i * a, for a whole number i >= 0
FMul(i, a) == Round(BigMulSmall(a, i), FALSE)

\* a / d, for a whole number d > 0 (the quotient zero or at least 2^-18, so
\* that the bit below the significand is part of the representation)
RoundQuotient(x) == Round(x.q, x.r # 0)

FDiv(a, d) == RoundQuotient(BigDivSmall(a, d))

\* the float written as the decimal literal k/10
Tenths(k) == FDiv(BigFromInt(k), 10)

\* ---------------------------------------------------------- Key Generator
Larger(a, b) == IF FLt(a, b) THEN b ELSE a
Smaller(a, b) == IF FLt(b, a) THEN b ELSE a

RECURSIVE max(_)
max(s) == IF Len(s) = 1 THEN s[1] ELSE Larger(s[1], max(Tail(s)))

RECURSIVE min(_)
min(s) == IF Len(s) = 1 THEN s[1] ELSE Smaller(s[1], min(Tail(s)))

\* the list comprehension of get_stack_keys, from index i of range(n) on
RECURSIVE StackKeysFrom(_, _, _, _)
StackKeysFrom(lower_bound, upper_bound, n, i) ==
    IF i >= n THEN <<>>
    ELSE <<FAdd(lower_bound,
                FDiv(FMul(i, FSub(upper_bound, lower_bound)), n - 1))>>
         \o StackKeysFrom(lower_bound, upper_bound, n, i + 1)

\* get_stack_keys rejecting every num_stacks <= 1 at the division
GetStackKeysRejecting(d, n) ==
    IF d = <<>> THEN [err |-> "ValueError", keys |-> <<>>]
    ELSE IF n <= 1
         THEN [err |-> "ZeroDivisionError", keys |-> <<>>]
         ELSE [err |-> "none", keys |-> StackKeysFrom(min(d), max(d), n, 0)]

\* get_stack_keys computing the spacing before it looks at the data
GetStackKeysSpacingFirst(d, n) ==
    IF 0 < n /\ n - 1 = 0 THEN [err |-> "ZeroDivisionError", keys |-> <<>>]
    ELSE IF d = <<>> THEN [err |-> "ValueError", keys |-> <<>>]
    ELSE [err |-> "none", keys |-> StackKeysFrom(min(d), max(d), n, 0)]

\* get_stack_keys(data, num_stacks): the keys, or the exception raised.
\* max(data) is evaluated first; the division by num_stacks-1 is reached only
\* when range(num_stacks) has a first element.
get_stack_keys(d, n) ==
    IF d = <<>> THEN [err |-> "ValueError", keys |-> <<>>]
    ELSE IF 0 < n /\ n - 1 = 0
         THEN [err |-> "ZeroDivisionError", keys |-> <<>>]
         ELSE [err |-> "none", keys |-> StackKeysFrom(min(d), max(d), n, 0)]

\* ------------------------------------------------------------------ Binner
\* A dict is held as its items in insertion order: <<[key, obs], ...>>, the
\* keys pairwise different.
HasKey(dict, key) == \E j \in 1..Len(dict) : dict[j].key = key

Index(dict, key) == CHOOSE j \in 1..Len(dict) : dict[j].key = key

\* SetEmpty adding an item for every key, equal keys included
SetEmptyNoMerge(dict, key) == Append(dict, [key |-> key, obs |-> <<>>])

\* dict[key] = []  (a key already present keeps its place)
SetEmpty(dict, key) ==
    IF HasKey(dict, key) THEN [dict EXCEPT ![Index(dict, key)].obs = <<>>]
    ELSE Append(dict, [key |-> key, obs |-> <<>>])

\* {key: [] for key in keys}
RECURSIVE DictFromKeys(_, _)
DictFromKeys(dict, ks) ==
    IF ks = <<>> THEN dict
    ELSE DictFromKeys(SetEmpty(dict, Head(ks)), Tail(ks))

\* AppendTo putting the observation at the front of the list
AppendToFront(dict, key, observation) ==
    [dict EXCEPT ![Index(dict, key)].obs = <<observation>> \o @]

\* stack_dict[key].append(observation)
AppendTo(dict, key, observation) ==
    [dict EXCEPT ![Index(dict, key)].obs = Append(@, observation)]

\* Scan with the upper bound of the interval inclusive
RECURSIVE ScanUpperInclusive(_, _, _)
ScanUpperInclusive(ks, observation, i) ==
    IF i >= Len(ks) THEN 0
    ELSE IF FLe(ks[i], observation) /\ FLe(observation, ks[i + 1]) THEN i
    ELSE ScanUpperInclusive(ks, observation, i + 1)

\* the inner for loop from index i on: the i (1 <= i < len(keys),
\* as in the source) of the first pair with keys[i-1] <= observation < keys[i],
\* or 0 when the loop ends without a break (add_to_end stays True).
\* ks[i] here is keys[i-1] of the source.
RECURSIVE Scan(_, _, _)
Scan(ks, observation, i) ==
    IF i >= Len(ks) THEN 0
    ELSE IF FLe(ks[i], observation) /\ FLt(observation, ks[i + 1]) THEN i
    ELSE Scan(ks, observation, i + 1)

\* Place with add_to_end never cleared: a matched observation is appended to
\* the final stack as well
PlaceFlagKept(dict, ks, observation, i) ==
    IF i # 0
    THEN AppendTo(AppendTo(dict, ks[i], observation), ks[Len(ks)], observation)
    ELSE AppendTo(dict, ks[Len(ks)], observation)

\* Place falling back to the first stack instead of the final one
PlaceFirst(dict, ks, observation, i) ==
    IF i # 0 THEN AppendTo(dict, ks[i], observation)
    ELSE AppendTo(dict, ks[1], observation)

\* the append made for one observation, given the outcome of the scan
Place(dict, ks, observation, i) ==
    IF i # 0 THEN AppendTo(dict, ks[i], observation)
    ELSE AppendTo(dict, ks[Len(ks)], observation)

\* the body of "for observation in data"
Bin(dict, ks, observation) ==
    Place(dict, ks, observation, Scan(ks, observation, 1))

\* --------------------------------------------------------- Point Projector
\* StackPoints with the 0-based index as the height
RECURSIVE StackPointsZeroBased(_, _, _)
StackPointsZeroBased(key, observations, i) ==
    IF i >= Len(observations) THEN <<>>
    ELSE <<(<<key, i>>)>> \o StackPointsZeroBased(key, observations, i + 1)

\* for i, obs in enumerate(observations): ordered_pairs.append((key, i+1)),
\* from index i on
RECURSIVE StackPoints(_, _, _)
StackPoints(key, observations, i) ==
    IF i >= Len(observations) THEN <<>>
    ELSE <<(<<key, i + 1>>)>> \o StackPoints(key, observations, i + 1)

\* ------------------------------------------------------------------ inputs
TenthsUsed == {3, 9, 10, 20}            \* 0.3, 0.9, 1, 2

Values == {Tenths(k) : k \in TenthsUsed}

RECURSIVE SeqsOfLen(_, _)
SeqsOfLen(S, n) ==
    IF n = 0 THEN {<<>>}
    ELSE {<<x>> \o s : x \in S, s \in SeqsOfLen(S, n - 1)}

SeqsUpTo(S, n) == UNION {SeqsOfLen(S, m) : m \in 0..n}

NoKeys == [given |-> FALSE, val |-> <<>>]

\* ------------------------------------------------------------------- state
VARIABLES
    data,           \* the data argument
    num_stacks,     \* the num_stacks argument
    keysArg,        \* the keys argument: NoKeys for None
    keys,           \* get_stack_dict's keys once it is a list
    stack_dict,     \* the dict being filled, then the one returned
    pos,            \* 1-based position of the next observation in data
    ordered_pairs,  \* get_points' list
    item,           \* 1-based position of the next item of stack_dict
    pc,             \* "start", "bin", "project", "done", "failed"
    err             \* the exception raised, "none" when there is none

vars == <<data, num_stacks, keysArg, keys, stack_dict, pos, ordered_pairs,
          item, pc, err>>

Init ==
    /\ data \in SeqsUpTo(Values, MaxLen)
    /\ \/ /\ keysArg = NoKeys
          /\ num_stacks \in (-MaxNeg)..MaxStacks
       \/ /\ keysArg \in {[given |-> TRUE, val |-> ks] :
                                ks \in SeqsUpTo(Values, MaxKeys)}
          /\ num_stacks = DefaultStacks
    /\ keys = <<>>
    /\ stack_dict = <<>>
    /\ pos = 1
    /\ ordered_pairs = <<>>
    /\ item = 1
    /\ pc = "start"
    /\ err = "none"

\* the effect of lines 51-53 given the outcome r of obtaining the keys
StartWith(r) ==
    IF r.err # "none"
    THEN /\ pc' = "failed"
         /\ err' = r.err
         /\ UNCHANGED <<keys, stack_dict>>
    ELSE /\ keys' = r.keys
         /\ stack_dict' = DictFromKeys(<<>>, r.keys)
         /\ pc' = "bin"
         /\ err' = "none"

\* get_stack_dict up to the first observation: the keys, the empty lists
BinStart ==
    /\ pc = "start"
    /\ IF keysArg = NoKeys
       THEN StartWith(get_stack_keys(data, num_stacks))
       ELSE StartWith([err |-> "none", keys |-> keysArg.val])
    /\ UNCHANGED <<data, num_stacks, keysArg, pos, ordered_pairs, item>>

\* one pass of "for observation in data"; keys[-1] of an empty list raises
BinObservation ==
    /\ pc = "bin"
    /\ pos <= Len(data)
    /\ IF keys = <<>>
       THEN /\ pc' = "failed"
            /\ err' = "IndexError"
            /\ UNCHANGED <<stack_dict, pos>>
       ELSE /\ stack_dict' = Bin(stack_dict, keys, data[pos])
            /\ pos' = pos + 1
            /\ UNCHANGED <<pc, err>>
    /\ UNCHANGED <<data, num_stacks, keysArg, keys, ordered_pairs, item>>

\* return stack_dict; dotplot hands it to get_points
BinReturn ==
    /\ pc = "bin"
    /\ pos > Len(data)
    /\ pc' = "project"
    /\ UNCHANGED <<data, num_stacks, keysArg, keys, stack_dict, pos,
                   ordered_pairs, item, err>>

\* one pass of "for key, observations in stack_dict.items()"
PointsKey ==
    /\ pc = "project"
    /\ item <= Len(stack_dict)
    /\ ordered_pairs' = ordered_pairs
            \o StackPoints(stack_dict[item].key, stack_dict[item].obs, 0)
    /\ item' = item + 1
    /\ UNCHANGED <<data, num_stacks, keysArg, keys, stack_dict, pos, pc, err>>

\* return ordered_pairs
PointsReturn ==
    /\ pc = "project"
    /\ item > Len(stack_dict)
    /\ pc' = "done"
    /\ UNCHANGED <<data, num_stacks, keysArg, keys, stack_dict, pos,
                   ordered_pairs, item, err>>

Next ==
    \/ BinStart
    \/ BinObservation
    \/ BinReturn
    \/ PointsKey
    \/ PointsReturn

Spec == Init /\ [][Next]_vars

\* --------------------------------------------------------------- properties
Binned == pc \in {"bin", "project", "done"}
Returned == pc \in {"project", "done"}

\* the observations handled so far
Seen == SubSeq(data, 1, pos - 1)

\* the list of the bin with key k
ListOf(k) == stack_dict[Index(stack_dict, k)].obs

LastKey == keys[Len(keys)]

RECURSIVE Count(_, _)
Count(v, s) ==
    IF s = <<>> THEN 0
    ELSE (IF Head(s) = v THEN 1 ELSE 0) + Count(v, Tail(s))

RECURSIVE SumLens(_, _)
SumLens(dict, j) ==
    IF j = 0 THEN 0 ELSE Len(dict[j].obs) + SumLens(dict, j - 1)

RECURSIVE CountAll(_, _, _)
CountAll(v, dict, j) ==
    IF j = 0 THEN 0 ELSE Count(v, dict[j].obs) + CountAll(v, dict, j - 1)

StrictlyIncreasing(ks) == \A i \in 1..(Len(ks) - 1) : FLt(ks[i], ks[i + 1])
NonDecreasing(ks) == \A i \in 1..(Len(ks) - 1) : FLe(ks[i], ks[i + 1])

\* s is t with some elements left out
RECURSIVE IsSubseq(_, _)
IsSubseq(s, t) ==
    IF s = <<>> THEN TRUE
    ELSE IF t = <<>> THEN FALSE
    ELSE IF Head(s) = Head(t) THEN IsSubseq(Tail(s), Tail(t))
    ELSE IsSubseq(s, Tail(t))

\* C1: when the Binner returns for a non-empty Dataset, the lengths of the
\* bin lists add up to len(Dataset) and every value occurs in the lists
\* together exactly as often as in Dataset (no loss, no duplication).
C1_TotalCoverage ==
    (Returned /\ data # <<>>) =>
        /\ SumLens(stack_dict, Len(stack_dict)) = Len(data)
        /\ \A v \in Values :
              CountAll(v, stack_dict, Len(stack_dict)) = Count(v, data)

C1_Witness ==
    /\ Returned
    /\ Len(data) >= 3
    /\ \E i, j \in 1..Len(stack_dict) :
          i # j /\ stack_dict[i].obs # <<>> /\ Len(stack_dict[j].obs) >= 2

\* C2: for a non-empty Dataset and num_stacks >= 2 the generated keys are
\* num_stacks values, the first equal to min(Dataset), the last equal to
\* max(Dataset), strictly increasing when min < max.
C2_KeysSpanData ==
    (Binned /\ keysArg = NoKeys /\ data # <<>> /\ num_stacks >= 2) =>
        /\ Len(keys) = num_stacks
        /\ keys[1] = min(data)
        /\ LastKey = max(data)
        /\ FLt(min(data), max(data)) => StrictlyIncreasing(keys)

\* C3: with auto-generated keys (num_stacks >= 2), once the Binner returns
\* every observation equal to max(Dataset) is in the list of the last key.
C3_MaxInLastBin ==
    (Returned /\ keysArg = NoKeys /\ data # <<>> /\ num_stacks >= 2) =>
        Count(max(data), ListOf(LastKey)) = Count(max(data), data)

\* the largest index b with ks[b] <= observation
Rightmost(ks, observation) ==
    CHOOSE b \in 1..Len(ks) :
        /\ FLe(ks[b], observation)
        /\ \A c \in (b + 1)..Len(ks) : ~ FLe(ks[c], observation)

\* C4: with strictly increasing keys, the observations >= the first key
\* that were handled so far lie each in the list of key[b], b the largest
\* index with key[b] <= observation: a non-last key key[i] holds exactly
\* those with key[i] <= observation < key[i+1], the last key those >= it.
C4_RightmostBoundary ==
    (Binned /\ keys # <<>> /\ StrictlyIncreasing(keys)) =>
        \A i \in 1..Len(keys) :
            /\ SelectSeq(ListOf(keys[i]), LAMBDA x : FLe(keys[1], x))
                 = SelectSeq(Seen, LAMBDA x : /\ FLe(keys[1], x)
                                              /\ Rightmost(keys, x) = i)
            /\ i < Len(keys) =>
                 ListOf(keys[i])
                   = SelectSeq(Seen, LAMBDA x : /\ FLe(keys[i], x)
                                                /\ FLt(x, keys[i + 1]))

C4_Witness ==
    /\ Returned
    /\ Len(keys) >= 3
    /\ StrictlyIncreasing(keys)
    /\ \E i \in 2..(Len(keys) - 1) :
          \E x \in Values :
             /\ Count(x, ListOf(keys[i])) > 0
             /\ FLt(keys[i], x)
    /\ ListOf(LastKey) # <<>>
    /\ \E n \in 1..Len(data) : data[n] = keys[2]

\* the values that occur in s
Range(s) == {s[n] : n \in 1..Len(s)}

\* C5: when the Binner returns, every bin list is Dataset with the
\* observations of the other bins left out: observations of one bin keep
\* the relative order they have in Dataset, equal values included.
C5_StableOrder ==
    Returned =>
        \A j \in 1..Len(stack_dict) :
            /\ IsSubseq(stack_dict[j].obs, data)
            /\ stack_dict[j].obs
                 = SelectSeq(data, LAMBDA x : x \in Range(stack_dict[j].obs))

C5_Witness ==
    /\ Returned
    /\ \E j \in 1..Len(stack_dict) :
          /\ Len(stack_dict[j].obs) >= 3
          /\ FLt(stack_dict[j].obs[2], stack_dict[j].obs[1])
          /\ stack_dict[j].obs[3] = stack_dict[j].obs[1]

\* number of pairs emitted for the items before item j
RECURSIVE Before(_, _)
Before(dict, j) == IF j = 1 THEN 0 ELSE Len(dict[j - 1].obs) + Before(dict, j - 1)

\* C6: get_points returns one pair per observation, the pairs of a key
\* together and the groups in the order of the mapping's keys; the group of
\* a key with k observations is (key,1), (key,2), ..., (key,k).
C6_StackHeights ==
    pc = "done" =>
        /\ Len(ordered_pairs) = SumLens(stack_dict, Len(stack_dict))
        /\ \A j \in 1..Len(stack_dict) :
              \A h \in 1..Len(stack_dict[j].obs) :
                 ordered_pairs[Before(stack_dict, j) + h]
                    = <<stack_dict[j].key, h>>

C6_Witness ==
    /\ pc = "done"
    /\ Len(stack_dict) >= 3
    /\ stack_dict[1].obs = <<>>
    /\ Len(stack_dict[2].obs) >= 2
    /\ stack_dict[3].obs # <<>>

\* C7 as stated: for a non-empty Dataset and num_stacks <= 1 the Key
\* Generator fails with a division-by-zero error and yields no keys.
C7_Original ==
    (pc # "start" /\ keysArg = NoKeys /\ data # <<>> /\ num_stacks <= 1) =>
        pc = "failed" /\ err = "ZeroDivisionError"

\* C7 as amended: for a non-empty Dataset, num_stacks = 1 makes the Key
\* Generator fail with a division-by-zero error; num_stacks <= 0 makes it
\* return an empty key list without error, and the Binner then fails with an
\* index error on the first observation.  In both cases no keys exist, no
\* observation is binned and no Bin Mapping is returned.
C7_InvalidStackCount ==
    (pc # "start" /\ keysArg = NoKeys /\ data # <<>> /\ num_stacks <= 1) =>
        /\ keys = <<>> /\ stack_dict = <<>> /\ pos = 1 /\ ~ Returned
        /\ num_stacks = 1 => pc = "failed" /\ err = "ZeroDivisionError"
        /\ num_stacks <= 0 =>
              \/ pc = "bin" /\ err = "none"
              \/ pc = "failed" /\ err = "IndexError"

C7_Witness ==
    /\ pc = "failed" /\ err = "ZeroDivisionError"
    /\ keysArg = NoKeys /\ num_stacks = 1 /\ Len(data) >= 2

\* C8 as stated: for an empty Dataset the Binner fails with the empty-input
\* error and returns no mapping, with or without explicit keys.
C8_Original ==
    (pc # "start" /\ data = <<>>) =>
        /\ pc = "failed" /\ err = "ValueError"
        /\ keys = <<>> /\ stack_dict = <<>>

\* C8 as amended: for an empty Dataset and no explicit keys the Binner
\* fails with the empty-input error, for every num_stacks, before any key
\* exists, and returns no mapping.
C8_EmptyInput ==
    (pc # "start" /\ data = <<>> /\ keysArg = NoKeys) =>
        /\ pc = "failed" /\ err = "ValueError"
        /\ keys = <<>> /\ stack_dict = <<>> /\ ordered_pairs = <<>>

C8_Witness ==
    /\ pc = "failed" /\ err = "ValueError"
    /\ data = <<>> /\ keysArg = NoKeys /\ num_stacks = 1

\* C9: with caller-supplied non-decreasing keys, the observations below the
\* first key that were handled so far are all in the last key's list, in
\* order, and in no other list; with a single key every observation is.
C9_BelowFirstKey ==
    (Binned /\ keysArg # NoKeys /\ keys # <<>> /\ NonDecreasing(keys)) =>
        /\ SelectSeq(ListOf(LastKey), LAMBDA x : FLt(x, keys[1]))
             = SelectSeq(Seen, LAMBDA x : FLt(x, keys[1]))
        /\ \A j \in 1..Len(stack_dict) :
              stack_dict[j].key # LastKey =>
                 \A n \in 1..Len(stack_dict[j].obs) :
                    ~ FLt(stack_dict[j].obs[n], keys[1])
        /\ Len(keys) = 1 => ListOf(LastKey) = Seen

C9_Witness ==
    /\ Returned
    /\ keysArg # NoKeys
    /\ Len(keys) >= 2
    /\ NonDecreasing(keys)
    /\ FLt(keys[1], LastKey)
    /\ \E x \in Values : FLt(x, keys[1]) /\ Count(x, ListOf(LastKey)) > 0
    /\ ListOf(keys[1]) # <<>>

AllEqual(s) == \A n \in 1..Len(s) : s[n] = s[1]

\* C10: for a non-empty Dataset of n copies of one value v and num_stacks
\* >= 2 nothing fails: the keys are num_stacks copies of v, the mapping has
\* the single key v with the observations handled so far, and get_points
\* returns (v,1), (v,2), ..., (v,n).
C10_AllEqual ==
    (pc # "start" /\ keysArg = NoKeys /\ data # <<>> /\ AllEqual(data)
        /\ num_stacks >= 2) =>
        /\ pc # "failed" /\ err = "none"
        /\ Len(keys) = num_stacks
        /\ \A i \in 1..Len(keys) : keys[i] = data[1]
        /\ stack_dict = <<[key |-> data[1], obs |-> Seen]>>
        /\ pc = "done" =>
              /\ Len(ordered_pairs) = Len(data)
              /\ \A h \in 1..Len(data) : ordered_pairs[h] = <<data[1], h>>

C10_Witness ==
    /\ pc = "done"
    /\ keysArg = NoKeys /\ num_stacks >= 3
    /\ Len(data) >= 3 /\ AllEqual(data)

TypeOK ==
    /\ pc \in {"start", "bin", "project", "done", "failed"}
    /\ err \in {"none", "ValueError", "ZeroDivisionError", "IndexError"}
    /\ pos \in 1..(Len(data) + 1)
    /\ item \in 1..(Len(stack_dict) + 1)
====
